---- MODULE Spec2Model ----
(***************************************************************************)
(* Model of src/main.py: the data loading function load_data and the       *)
(* top-level dashboard script that consumes its result.                    *)
(*                                                                         *)
(* Strings are sequences of code units.  A Hangul syllable of the source   *)
(* literals is one unit (romanised, e.g. "song" for U+C1A1); its           *)
(* conjoining jamo are separate units ("L_s", "V_o", "T_ng").  A run of    *)
(* ASCII characters is one unit ("_", ".csv", "Sheet1").                   *)
(***************************************************************************)
EXTENDS Integers, Sequences, FiniteSets, TLC

VARIABLES
    dirExists,        \* data_path.exists()
    files,            \* list(data_path.iterdir()): the listing, in iteration order
    pc,               \* position of the script
    ret,              \* the tuple load_data returned
    env_data,         \* dict school -> environment table (insertion ordered)
    growth_data,      \* dict school -> growth table (insertion ordered)
    school_config,    \* the registry as unpacked by the caller
    all_growth_df,    \* the unified growth table
    selected_school,  \* the sidebar selection
    cond_data,        \* tab 1: the per-school condition table
    env_stats,        \* tab 2: the environment summary
    target_df,        \* tab 2: the table of the time-series plot
    avg_weight_best,  \* tab 3: mean fresh weight of the best school
    growth_agg,       \* tab 3: the per-school growth summary
    counts,           \* tab 3: the per-school row counts
    display_df,       \* tab 3: the table offered for download
    err,              \* the uncaught exception, with the line that raised it
    target,           \* resolver: the target name handed to the resolver
    match             \* resolver: the file the resolver selected

vars == <<dirExists, files, pc, ret, env_data, growth_data, school_config,
          all_growth_df, selected_school, cond_data, env_stats, target_df,
          avg_weight_best, growth_agg, counts, display_df, err, target, match>>

(***************************************************************************)
(* Bounds of the model.                                                    *)
(***************************************************************************)
MaxSheets == 3
MaxListing == 3

\* Python's None, and the float NaN.
None == [none |-> TRUE]
NaN == [nan |-> TRUE]

(***************************************************************************)
(* unicodedata.normalize for the characters of the source literals.        *)
(***************************************************************************)
Jamo ==
    [ song  |-> <<"L_s", "V_o", "T_ng">>,
      do    |-> <<"L_d", "V_o">>,
      go    |-> <<"L_g", "V_o">>,
      ha    |-> <<"L_h", "V_a">>,
      neul  |-> <<"L_n", "V_eu", "T_l">>,
      a     |-> <<"L_ieung", "V_a">>,
      ra    |-> <<"L_r", "V_a">>,
      dong  |-> <<"L_d", "V_o", "T_ng">>,
      san   |-> <<"L_s", "V_a", "T_n">>,
      hwan  |-> <<"L_h", "V_wa", "T_n">>,
      gyeong |-> <<"L_g", "V_yeo", "T_ng">>,
      de    |-> <<"L_d", "V_e">>,
      i     |-> <<"L_ieung", "V_i">>,
      teo   |-> <<"L_t", "V_eo">>,
      gae   |-> <<"L_g", "V_ae">>,
      gyo   |-> <<"L_g", "V_yo">>,
      saeng |-> <<"L_s", "V_ae", "T_ng">>,
      yuk   |-> <<"L_ieung", "V_yu", "T_g">>,
      gyeol |-> <<"L_g", "V_yeo", "T_l">>,
      gwa   |-> <<"L_g", "V_wa">> ]

Syllables == DOMAIN Jamo

\* Canonical decomposition: every precomposed syllable becomes its jamo.
RECURSIVE Decompose(_)
Decompose(s) ==
    IF s = <<>> THEN <<>>
    ELSE (IF Head(s) \in Syllables THEN Jamo[Head(s)] ELSE <<Head(s)>>)
         \o Decompose(Tail(s))

IsPrefix(p, s) == Len(p) <= Len(s) /\ SubSeq(s, 1, Len(p)) = p

\* Canonical composition: a leading consonant, a vowel and an optional
\* trailing consonant become one syllable (the longest match is taken).
RECURSIVE Compose(_)
Compose(s) ==
    IF s = <<>> THEN <<>>
    ELSE LET c3 == {y \in Syllables : Len(Jamo[y]) = 3 /\ IsPrefix(Jamo[y], s)}
             c2 == {y \in Syllables : Len(Jamo[y]) = 2 /\ IsPrefix(Jamo[y], s)}
         IN  IF c3 # {} THEN <<CHOOSE y \in c3 : TRUE>> \o Compose(SubSeq(s, 4, Len(s)))
             ELSE IF c2 # {} THEN <<CHOOSE y \in c2 : TRUE>> \o Compose(SubSeq(s, 3, Len(s)))
             ELSE <<Head(s)>> \o Compose(Tail(s))

NFD(s) == Decompose(s)
NFC(s) == Compose(Decompose(s))

\* Python's `a in b` on strings.
Contains(b, a) ==
    \E k \in 0..(Len(b) - Len(a)) : SubSeq(b, k + 1, k + Len(a)) = a


(***************************************************************************)
(* The registry school_info (an insertion-ordered dict).  The target EC    *)
(* values 1.0, 2.0, 4.0, 8.0 are written as the integers 1, 2, 4, 8.       *)
(***************************************************************************)
Songdo == <<"song", "do", "go">>
Haneul == <<"ha", "neul", "go">>
Ara == <<"a", "ra", "go">>
Dongsan == <<"dong", "san", "go">>

school_info ==
    << [k |-> Songdo,  v |-> [ec_target |-> 1, color |-> "#AB63FA"]],
       [k |-> Haneul,  v |-> [ec_target |-> 2, color |-> "#EF553B"]],
       [k |-> Ara,     v |-> [ec_target |-> 4, color |-> "#00CC96"]],
       [k |-> Dongsan, v |-> [ec_target |-> 8, color |-> "#636EFA"]] >>

\* A pandas DataFrame is a record [rows |-> <<row, ...>>].
\* Python dicts: a sequence of key/value items in insertion order.
DictKeys(d) == [j \in 1..Len(d) |-> d[j].k]
KeySet(d) == {d[j].k : j \in 1..Len(d)}
DictValues(d) == [j \in 1..Len(d) |-> d[j].v]
DictHas(d, key) == key \in KeySet(d)
DictGet(d, key) == d[CHOOSE j \in 1..Len(d) : d[j].k = key].v
DictSet(d, key, val) ==
    IF DictHas(d, key)
    THEN [j \in 1..Len(d) |-> IF d[j].k = key THEN [k |-> key, v |-> val] ELSE d[j]]
    ELSE Append(d, [k |-> key, v |-> val])

Schools == KeySet(school_info)

EnvSuffix == <<"_", "hwan", "gyeong", "de", "i", "teo", ".csv">>
EnvTarget(school_name) == school_name \o EnvSuffix
XlsxTarget == <<"4", "gae", "gyo", "_", "saeng", "yuk", "gyeol", "gwa", "de", "i", "teo", ".xlsx">>

(***************************************************************************)
(* load_data                                                               *)
(***************************************************************************)
\* Faulty variant: the NFC-named file is looked for first and the NFD-named
\* one only when there is none, instead of one pass over the listing.
ResolveFile_PreferNfc(fs, t) ==
    LET nfc == {j \in 1..Len(fs) : fs[j].name = NFC(t)}
        nfd == {j \in 1..Len(fs) : fs[j].name = NFD(t)}
    IN  IF nfc # {} THEN fs[CHOOSE j \in nfc : \A h \in nfc : j <= h]
        ELSE IF nfd # {} THEN fs[CHOOSE j \in nfd : \A h \in nfd : j <= h]
        ELSE None

\* Faulty variant: the stored names are normalized before the comparison.
ResolveFile_NormalizeStored(fs, t) ==
    LET hits == {j \in 1..Len(fs) : NFC(fs[j].name) = NFC(t)}
    IN  IF hits = {} THEN None
        ELSE fs[CHOOSE j \in hits : \A h \in hits : j <= h]

\* next((f for f in files if f.name == target_nfc or f.name == target_nfd), None)
ResolveFile(fs, t) ==
    LET target_nfc == NFC(t)
        target_nfd == NFD(t)
        hits == {j \in 1..Len(fs) : fs[j].name = target_nfc \/ fs[j].name = target_nfd}
    IN  IF hits = {} THEN None
        ELSE fs[CHOOSE j \in hits : \A h \in hits : j <= h]

\* pd.read_csv, pd.to_datetime and the school tag.
EnvFrame(school_name, f) ==
    [rows |-> [j \in 1..Len(f.csv.rows) |->
        [temperature |-> f.csv.rows[j].temperature,
         humidity    |-> f.csv.rows[j].humidity,
         ph          |-> f.csv.rows[j].ph,
         ec          |-> f.csv.rows[j].ec,
         school      |-> school_name]]]

\* Faulty variant: the loop ends at the first school without a file.
RECURSIVE EnvLoop_StopAtMissing(_, _, _)
EnvLoop_StopAtMissing(fs, j, env_dfs) ==
    IF j > Len(school_info) THEN env_dfs
    ELSE LET school_name == school_info[j].k
             m == ResolveFile(fs, EnvTarget(school_name))
         IN  IF m # None
             THEN EnvLoop_StopAtMissing(fs, j + 1,
                      DictSet(env_dfs, school_name, EnvFrame(school_name, m)))
             ELSE env_dfs

\* The loop over school_info.keys() that fills env_dfs.
RECURSIVE EnvLoop(_, _, _)
EnvLoop(fs, j, env_dfs) ==
    IF j > Len(school_info) THEN env_dfs
    ELSE LET school_name == school_info[j].k
             m == ResolveFile(fs, EnvTarget(school_name))
         IN  IF m # None
             THEN EnvLoop(fs, j + 1, DictSet(env_dfs, school_name, EnvFrame(school_name, m)))
             ELSE EnvLoop(fs, j + 1, env_dfs)

\* pd.to_datetime(df['time']) raises when the column does not parse.
EnvRaises(fs) ==
    \E j \in 1..Len(school_info) :
        LET m == ResolveFile(fs, EnvTarget(school_info[j].k))
        IN  m # None /\ ~m.csv.timeOk

\* Faulty variant: the target EC is read from the last registry entry
\* instead of the entry of the school.
GrowthFrame_StaleEc(school_name, sheet) ==
    [rows |-> [j \in 1..Len(sheet.rows) |->
        [weight    |-> sheet.rows[j].weight,
         leaves    |-> sheet.rows[j].leaves,
         length    |-> sheet.rows[j].length,
         school    |-> school_name,
         ec_target |-> school_info[Len(school_info)].v.ec_target]]]

\* pd.read_excel of one sheet, with the school tag and the target EC.
GrowthFrame(school_name, sheet) ==
    [rows |-> [j \in 1..Len(sheet.rows) |->
        [weight    |-> sheet.rows[j].weight,
         leaves    |-> sheet.rows[j].leaves,
         length    |-> sheet.rows[j].length,
         school    |-> school_name,
         ec_target |-> DictGet(school_info, school_name).ec_target]]]

\* The inner loop over school_info.keys() for one sheet.
RECURSIVE SheetLoop(_, _, _)
SheetLoop(sheet, j, growth_df_dict) ==
    IF j > Len(school_info) THEN growth_df_dict
    ELSE LET norm_sheet == NFC(sheet.name)
             school_name == school_info[j].k
         IN  IF Contains(norm_sheet, school_name)
             THEN SheetLoop(sheet, j + 1,
                            DictSet(growth_df_dict, school_name, GrowthFrame(school_name, sheet)))
             ELSE SheetLoop(sheet, j + 1, growth_df_dict)

\* The loop over xls.sheet_names.
RECURSIVE GrowthLoop(_, _, _)
GrowthLoop(sheets, n, growth_df_dict) ==
    IF n > Len(sheets) THEN growth_df_dict
    ELSE GrowthLoop(sheets, n + 1, SheetLoop(sheets[n], 1, growth_df_dict))

GrowthLoad(fs) ==
    LET xlsx_match == ResolveFile(fs, XlsxTarget)
    IN  IF xlsx_match # None THEN GrowthLoop(xlsx_match.sheets, 1, <<>>) ELSE <<>>

NoErr == [exc |-> "none", line |-> 0]

LoadData ==
    /\ pc = "load"
    /\ IF ~dirExists
       THEN /\ ret' = <<None, None>>
            /\ pc' = "unpack"
            /\ err' = err
       ELSE IF EnvRaises(files)
       THEN /\ ret' = ret
            /\ pc' = "error"
            /\ err' = [exc |-> "ParseError", line |-> 56]
       ELSE /\ ret' = <<EnvLoop(files, 1, <<>>), GrowthLoad(files), school_info>>
            /\ pc' = "unpack"
            /\ err' = err
    /\ UNCHANGED <<dirExists, files, env_data, growth_data, school_config,
                   all_growth_df, selected_school, cond_data, env_stats, target_df,
                   avg_weight_best, growth_agg, counts, display_df, target, match>>


(***************************************************************************)
(* The script                                                              *)
(***************************************************************************)
Raise(exc, line) ==
    /\ pc' = "error"
    /\ err' = [exc |-> exc, line |-> line]

\* env_data, growth_data, school_config = load_data()
Unpack ==
    /\ pc = "unpack"
    /\ IF Len(ret) = 3
       THEN /\ env_data' = ret[1]
            /\ growth_data' = ret[2]
            /\ school_config' = ret[3]
            /\ pc' = "check"
            /\ err' = err
       ELSE /\ Raise("ValueError", 81)
            /\ UNCHANGED <<env_data, growth_data, school_config>>
    /\ UNCHANGED <<dirExists, files, ret, all_growth_df, selected_school, cond_data,
                   env_stats, target_df, avg_weight_best, growth_agg, counts,
                   display_df, target, match>>

\* Python truth value of a dict (None never gets here: the unpacking raises first).
Falsy(d) == d = <<>>

\* Faulty variant: only the environment mapping is tested.
StopCondition_EnvOnly(env, growth) == Falsy(env)

\* if not env_data or not growth_data
StopCondition(env, growth) == Falsy(env) \/ Falsy(growth)

EmptyCheck ==
    /\ pc = "check"
    /\ pc' = IF StopCondition(env_data, growth_data) THEN "stopped" ELSE "unify"
    /\ UNCHANGED <<dirExists, files, ret, env_data, growth_data, school_config,
                   all_growth_df, selected_school, cond_data, env_stats, target_df,
                   avg_weight_best, growth_agg, counts, display_df, err, target, match>>

\* pd.concat(frames, ignore_index=True)
RECURSIVE Concat(_)
Concat(frames) ==
    IF frames = <<>> THEN [rows |-> <<>>]
    ELSE [rows |-> Head(frames).rows \o Concat(Tail(frames)).rows]

\* all_growth_df = pd.concat(growth_data.values(), ignore_index=True);
\* pd.concat raises ValueError when handed no objects.
Unify ==
    /\ pc = "unify"
    /\ IF growth_data = <<>>
       THEN /\ Raise("ValueError", 87)
            /\ all_growth_df' = all_growth_df
       ELSE /\ all_growth_df' = Concat(DictValues(growth_data))
            /\ pc' = "sidebar"
            /\ err' = err
    /\ UNCHANGED <<dirExists, files, ret, env_data, growth_data, school_config,
                   selected_school, cond_data, env_stats, target_df,
                   avg_weight_best, growth_agg, counts, display_df, target, match>>

All == <<"all">>
SidebarOptions == <<All, Songdo, Haneul, Ara, Dongsan>>

\* selected_school = st.sidebar.selectbox(...)
Sidebar ==
    /\ pc = "sidebar"
    /\ \E j \in 1..Len(SidebarOptions) : selected_school' = SidebarOptions[j]
    /\ pc' = "tab1"
    /\ UNCHANGED <<dirExists, files, ret, env_data, growth_data, school_config,
                   all_growth_df, cond_data, env_stats, target_df,
                   avg_weight_best, growth_agg, counts, display_df, err, target, match>>


RECURSIVE Sum(_)
Sum(xs) == IF xs = <<>> THEN 0 ELSE Head(xs) + Sum(Tail(xs))

Column(df, c) == [j \in 1..Len(df.rows) |-> df.rows[j][c]]

\* Series.mean(): the exact quotient sum / n, NaN for an empty series.
Mean(xs) == IF xs = <<>> THEN NaN ELSE [sum |-> Sum(xs), n |-> Len(xs)]

\* cond_data: one row per registry school, the count 0 for a school without table.
CondRow(name, info, growth) ==
    [school |-> name, ec_target |-> info.ec_target,
     count  |-> IF DictHas(growth, name) THEN Len(DictGet(growth, name).rows) ELSE 0,
     color  |-> info.color]

Tab1 ==
    /\ pc = "tab1"
    /\ cond_data' = [rows |-> [j \in 1..Len(school_config) |->
                        CondRow(school_config[j].k, school_config[j].v, growth_data)]]
    /\ pc' = "env_stats"
    /\ UNCHANGED <<dirExists, files, ret, env_data, growth_data, school_config,
                   all_growth_df, selected_school, env_stats, target_df,
                   avg_weight_best, growth_agg, counts, display_df, err, target, match>>

\* One entry of env_stats.
EnvStatRow(school, df) ==
    [School    |-> school,
     Temp      |-> Mean(Column(df, "temperature")),
     Hum       |-> Mean(Column(df, "humidity")),
     pH        |-> Mean(Column(df, "ph")),
     EC_Actual |-> Mean(Column(df, "ec")),
     EC_Target |-> DictGet(school_config, school).ec_target]

\* env_stats, as the DataFrame stat_df built from it.
EnvStats ==
    /\ pc = "env_stats"
    /\ env_stats' = [rows |-> [j \in 1..Len(env_data) |->
                        EnvStatRow(env_data[j].k, env_data[j].v)]]
    /\ pc' = "timeseries"
    /\ UNCHANGED <<dirExists, files, ret, env_data, growth_data, school_config,
                   all_growth_df, selected_school, cond_data, target_df,
                   avg_weight_best, growth_agg, counts, display_df, err, target, match>>

school_to_plot == IF selected_school # All THEN selected_school ELSE Haneul

\* target_df = env_data[school_to_plot]
TimeSeries ==
    /\ pc = "timeseries"
    /\ IF DictHas(env_data, school_to_plot)
       THEN /\ target_df' = DictGet(env_data, school_to_plot)
            /\ pc' = "best"
            /\ err' = err
       ELSE /\ Raise("KeyError", 165)
            /\ target_df' = target_df
    /\ UNCHANGED <<dirExists, files, ret, env_data, growth_data, school_config,
                   all_growth_df, selected_school, cond_data, env_stats,
                   avg_weight_best, growth_agg, counts, display_df, target, match>>

best_school == Haneul

\* avg_weight_best = growth_data[best_school]['weight'].mean()
BestSchool ==
    /\ pc = "best"
    /\ IF DictHas(growth_data, best_school)
       THEN /\ avg_weight_best' = Mean(Column(DictGet(growth_data, best_school), "weight"))
            /\ pc' = "agg"
            /\ err' = err
       ELSE /\ Raise("KeyError", 189)
            /\ avg_weight_best' = avg_weight_best
    /\ UNCHANGED <<dirExists, files, ret, env_data, growth_data, school_config,
                   all_growth_df, selected_school, cond_data, env_stats, target_df,
                   growth_agg, counts, display_df, target, match>>

\* sorted() of the school names: Python compares strings by code point.
SortedSchoolNames == <<Dongsan, Songdo, Ara, Haneul>>

RowsOf(df, school) == SelectSeq(df.rows, LAMBDA r : r.school = school)

\* df.groupby('school').mean(numeric_only=True).reset_index(): one row per
\* school that occurs in the column, in sorted key order.
GroupByMean(df) ==
    LET present == SelectSeq(SortedSchoolNames, LAMBDA s : RowsOf(df, s) # <<>>)
    IN  [rows |-> [j \in 1..Len(present) |->
            LET g == [rows |-> RowsOf(df, present[j])]
            IN  [school    |-> present[j],
                 weight    |-> Mean(Column(g, "weight")),
                 leaves    |-> Mean(Column(g, "leaves")),
                 length    |-> Mean(Column(g, "length")),
                 ec_target |-> Mean(Column(g, "ec_target"))]]]

\* growth_agg['ec_val'] = growth_agg['school'].map(lambda x: school_config[x]['ec_target'])
WithEcVal(df) ==
    [rows |-> [j \in 1..Len(df.rows) |->
        [school    |-> df.rows[j].school,
         weight    |-> df.rows[j].weight,
         leaves    |-> df.rows[j].leaves,
         length    |-> df.rows[j].length,
         ec_target |-> df.rows[j].ec_target,
         ec_val    |-> DictGet(school_config, df.rows[j].school).ec_target]]]

RECURSIVE InsertByEc(_, _)
InsertByEc(r, sorted) ==
    IF sorted = <<>> THEN <<r>>
    ELSE IF r.ec_val < Head(sorted).ec_val THEN <<r>> \o sorted
    ELSE <<Head(sorted)>> \o InsertByEc(r, Tail(sorted))

RECURSIVE SortRows(_)
SortRows(rows) ==
    IF rows = <<>> THEN <<>>
    ELSE InsertByEc(rows[Len(rows)], SortRows(SubSeq(rows, 1, Len(rows) - 1)))

\* growth_agg.sort_values('ec_val')
SortValues(df) == [rows |-> SortRows(df.rows)]

\* all_growth_df['school'].value_counts().reindex(growth_agg['school'])
ValueCounts(df, agg) ==
    [rows |-> [j \in 1..Len(agg.rows) |->
        [school |-> agg.rows[j].school,
         count  |-> Len(RowsOf(df, agg.rows[j].school))]]]

GrowthAgg ==
    /\ pc = "agg"
    /\ growth_agg' = SortValues(WithEcVal(GroupByMean(all_growth_df)))
    /\ counts' = ValueCounts(all_growth_df, growth_agg')
    /\ pc' = "expander"
    /\ UNCHANGED <<dirExists, files, ret, env_data, growth_data, school_config,
                   all_growth_df, selected_school, cond_data, env_stats, target_df,
                   avg_weight_best, display_df, err, target, match>>

\* display_df = all_growth_df if selected_school == "all" else growth_data[selected_school]
Expander ==
    /\ pc = "expander"
    /\ IF selected_school = All
       THEN /\ display_df' = all_growth_df
            /\ pc' = "done"
            /\ err' = err
       ELSE IF DictHas(growth_data, selected_school)
       THEN /\ display_df' = DictGet(growth_data, selected_school)
            /\ pc' = "done"
            /\ err' = err
       ELSE /\ Raise("KeyError", 226)
            /\ display_df' = display_df
    /\ UNCHANGED <<dirExists, files, ret, env_data, growth_data, school_config,
                   all_growth_df, selected_school, cond_data, env_stats, target_df,
                   avg_weight_best, growth_agg, counts, target, match>>


(***************************************************************************)
(* The source directory the script may find.                               *)
(***************************************************************************)
Absent == [absent |-> TRUE]

EnvRow1 == [temperature |-> 20, humidity |-> 60, ph |-> 6, ec |-> 2]
EnvRow2 == [temperature |-> 24, humidity |-> 50, ph |-> 7, ec |-> 3]

\* A well-formed file, a header-only file, a file whose time column does not parse.
GoodCsv == [timeOk |-> TRUE, rows |-> <<EnvRow1, EnvRow2>>]
HeaderOnlyCsv == [timeOk |-> TRUE, rows |-> <<>>]
BadCsv == [timeOk |-> FALSE, rows |-> <<EnvRow1>>]

EnvChoices ==
    { Absent,
      [form |-> "NFC", csv |-> GoodCsv],
      [form |-> "NFD", csv |-> HeaderOnlyCsv],
      [form |-> "NFD", csv |-> BadCsv] }

StoredName(t, form) == IF form = "NFC" THEN NFC(t) ELSE NFD(t)

GrowthRow1 == [weight |-> 3, leaves |-> 5, length |-> 40]
GrowthRow2 == [weight |-> 6, leaves |-> 7, length |-> 55]

\* The sheets a workbook may hold: one per school (under either normalization
\* form, with or without rows), a sheet naming two schools, a non-data sheet.
SheetCands ==
    { [name |-> Songdo,                        rows |-> <<GrowthRow1, GrowthRow2>>],
      [name |-> Haneul,                        rows |-> <<GrowthRow2>>],
      [name |-> NFD(Ara),                      rows |-> <<GrowthRow1, GrowthRow1>>],
      [name |-> Ara,                           rows |-> <<>>],
      [name |-> NFD(Dongsan),                  rows |-> <<GrowthRow1>>],
      [name |-> Songdo \o <<"_">> \o Haneul,   rows |-> <<GrowthRow2, GrowthRow2>>],
      [name |-> <<"Sheet1">>,                  rows |-> <<GrowthRow1>>] }

Distinct(seq) == \A a, b \in 1..Len(seq) : a # b => seq[a].name # seq[b].name

SheetLists ==
    {ss \in UNION {[1..n -> SheetCands] : n \in 0..MaxSheets} : Distinct(ss)}

WorkbookChoices ==
    {Absent} \cup {[form |-> f, sheets |-> ss] : f \in {"NFC", "NFD"}, ss \in SheetLists}

\* The complete data set, a workbook without data sheets, no workbook.
FullWorkbook ==
    [form   |-> "NFC",
     sheets |-> << [name |-> Dongsan,     rows |-> <<GrowthRow1>>],
                   [name |-> NFD(Haneul), rows |-> <<GrowthRow2, GrowthRow1>>],
                   [name |-> Songdo,      rows |-> <<GrowthRow1, GrowthRow2>>],
                   [name |-> Ara,         rows |-> <<GrowthRow2>>] >>]

FewWorkbooks ==
    { Absent, FullWorkbook,
      [form |-> "NFD", sheets |-> <<[name |-> <<"Sheet1">>, rows |-> <<GrowthRow1>>]>>] }

\* Every school's file present, only some present, none present.
FewEnvs ==
    { [j \in 1..Len(school_info) |-> [form |-> "NFC", csv |-> GoodCsv]],
      [j \in 1..Len(school_info) |->
          IF j = 1 THEN [form |-> "NFD", csv |-> HeaderOnlyCsv]
          ELSE IF j = 2 THEN [form |-> "NFD", csv |-> GoodCsv]
          ELSE Absent],
      [j \in 1..Len(school_info) |-> Absent] }

RECURSIVE EnvFiles(_, _)
EnvFiles(e, j) ==
    IF j > Len(school_info) THEN <<>>
    ELSE (IF e[j] = Absent THEN <<>>
          ELSE <<[name |-> StoredName(EnvTarget(school_info[j].k), e[j].form),
                  csv  |-> e[j].csv]>>)
         \o EnvFiles(e, j + 1)

Listing(e, wb) ==
    EnvFiles(e, 1)
    \o (IF wb = Absent THEN <<>>
        ELSE <<[name |-> StoredName(XlsxTarget, wb.form), sheets |-> wb.sheets]>>)

InitScript ==
    /\ ret = None
    /\ env_data = None
    /\ growth_data = None
    /\ school_config = None
    /\ all_growth_df = None
    /\ selected_school = <<>>
    /\ cond_data = None
    /\ env_stats = None
    /\ target_df = None
    /\ avg_weight_best = None
    /\ growth_agg = None
    /\ counts = None
    /\ display_df = None
    /\ err = NoErr
    /\ target = <<>>
    /\ match = None

Init ==
    /\ pc = "load"
    /\ \/ /\ dirExists = FALSE
          /\ files = <<>>
       \/ /\ dirExists = TRUE
          /\ \E e \in [1..Len(school_info) -> EnvChoices], wb \in FewWorkbooks :
                files = Listing(e, wb)
       \/ /\ dirExists = TRUE
          /\ \E e \in FewEnvs, wb \in WorkbookChoices :
                files = Listing(e, wb)
    /\ InitScript

Next ==
    \/ LoadData
    \/ Unpack
    \/ EmptyCheck
    \/ Unify
    \/ Sidebar
    \/ Tab1
    \/ EnvStats
    \/ TimeSeries
    \/ BestSchool
    \/ GrowthAgg
    \/ Expander

Spec == Init /\ [][Next]_vars

(***************************************************************************)
(* The resolver step on its own, on arbitrary listings.                    *)
(***************************************************************************)
\* The target names of load_data, as the source literal builds them or in
\* the decomposed form.
ResolverTargets ==
    UNION {{NFC(t), NFD(t)} : t \in {EnvTarget(s) : s \in Schools} \cup {XlsxTarget}}

\* A name in neither normalization form: only its second unit is decomposed.
Mixed(t) == <<NFC(t)[1]>> \o NFD(<<NFC(t)[2]>>) \o SubSeq(NFC(t), 3, Len(NFC(t)))

OtherTarget(t) ==
    IF NFC(t) = NFC(EnvTarget(Songdo)) THEN EnvTarget(Haneul) ELSE EnvTarget(Songdo)

\* File names a directory may hold beside or instead of the target.
NameCands(t) ==
    { NFC(t), NFD(t), Mixed(t),
      SubSeq(NFC(t), 1, Len(NFC(t)) - 1),
      NFC(t) \o <<".bak">>,
      <<"copy_">> \o NFD(t),
      NFC(OtherTarget(t)) }

Listings(t) ==
    {l \in UNION {[1..n -> {[name |-> c] : c \in NameCands(t)}] : n \in 0..MaxListing} :
        Distinct(l)}

InitResolver ==
    /\ pc = "resolve"
    /\ dirExists = TRUE
    /\ \E t \in ResolverTargets :
        /\ target = t
        /\ files \in Listings(t)
    /\ ret = None
    /\ env_data = None
    /\ growth_data = None
    /\ school_config = None
    /\ all_growth_df = None
    /\ selected_school = <<>>
    /\ cond_data = None
    /\ env_stats = None
    /\ target_df = None
    /\ avg_weight_best = None
    /\ growth_agg = None
    /\ counts = None
    /\ display_df = None
    /\ err = NoErr
    /\ match = None

\* match = next((f for f in files if ...), None)
Resolve ==
    /\ pc = "resolve"
    /\ match' = ResolveFile(files, target)
    /\ pc' = "resolved"
    /\ UNCHANGED <<dirExists, files, ret, env_data, growth_data, school_config,
                   all_growth_df, selected_school, cond_data, env_stats, target_df,
                   avg_weight_best, growth_agg, counts, display_df, err, target>>

NextResolver == Resolve

SpecResolver == InitResolver /\ [][NextResolver]_vars


(***************************************************************************)
(* Properties                                                              *)
(***************************************************************************)
\* load_data has returned its three-part result and the caller holds it.
Loaded == pc = "unpack" /\ Len(ret) = 3

\* The caller has unpacked the result of load_data.
Unpacked == pc \notin {"load", "unpack", "resolve", "resolved"} /\ ~(pc = "error" /\ err.line <= 81)

\* The names under which a target may be stored.
StoredForms(t) == {NFC(t), NFD(t)}

EnvNames == [s \in Schools |-> StoredForms(EnvTarget(s))]
XlsxNames == StoredForms(XlsxTarget)

HasEnvFile(s) == \E j \in 1..Len(files) : files[j].name \in EnvNames[s]

WorkbookSheets ==
    LET hits == {j \in 1..Len(files) : files[j].name \in XlsxNames}
    IN  IF hits = {} THEN <<>>
        ELSE files[CHOOSE j \in hits : \A h \in 1..(j - 1) : h \notin hits].sheets

Names(s, sheet) == Contains(NFC(sheet.name), s)

HasSheet(s) ==
    LET ws == WorkbookSheets
    IN  \E n \in 1..Len(ws) : Names(s, ws[n])

\* C1: in the growth load every sheet is assigned to at most one school, so
\* the rows of one sheet never become the growth tables of two different
\* schools, and every entry of growth_by_school comes from a sheet whose
\* normalized name contains that school's identifier.
C1_SheetToOneSchool ==
    Loaded =>
        LET ws == WorkbookSheets
        IN  /\ \A n \in 1..Len(ws) :
                  Cardinality({s \in KeySet(ret[2]) :
                                 /\ Names(s, ws[n])
                                 /\ DictGet(ret[2], s) = GrowthFrame(s, ws[n])}) <= 1
            /\ \A s \in KeySet(ret[2]) : HasSheet(s)

\* C2: after load_data on an existing directory the keys of
\* environment_by_school are exactly the schools with a matching environment
\* file and the keys of growth_by_school exactly the schools with a matching
\* sheet; the load raises only when a matched file does not parse, never
\* because a file or a sheet is missing.
C2_PartialCoverage ==
    /\ (Loaded /\ dirExists) =>
          /\ KeySet(ret[1]) = {s \in Schools : HasEnvFile(s)}
          /\ KeySet(ret[2]) = {s \in Schools : HasSheet(s)}
    /\ (pc = "error" /\ err.line < 81) =>
          \E j \in 1..Len(files) :
              /\ \E s \in Schools : files[j].name \in EnvNames[s]
              /\ ~files[j].csv.timeOk

C2_Witness ==
    /\ Loaded
    /\ dirExists
    /\ KeySet(ret[1]) \notin {{}, Schools}
    /\ KeySet(ret[2]) \notin {{}, Schools}
    /\ \E s \in Schools : HasEnvFile(s) /\ ~HasSheet(s)

\* C3: when the source directory does not exist, load_data hands the caller
\* a result without tables and the caller stops the run at the emptiness
\* check, no error being raised.
C3_MissingDirectoryStops ==
    ~dirExists =>
        /\ pc = "unpack" => (ret[1] = None /\ ret[2] = None)
        /\ pc \in {"load", "unpack", "check", "stopped"}
        /\ err = NoErr

\* C6: every row of the growth table stored under school S carries the tag S
\* and the registered target EC of S, and every row of the unified growth
\* table carries a school tag with that school's registered target EC.
C6_TargetEcConsistent ==
    /\ Unpacked =>
          \A j \in 1..Len(growth_data) :
              \A n \in 1..Len(growth_data[j].v.rows) :
                  LET r == growth_data[j].v.rows[n]
                  IN  /\ r.school = growth_data[j].k
                      /\ \E c \in 1..Len(school_info) :
                            /\ school_info[c].k = growth_data[j].k
                            /\ school_info[c].v.ec_target = r.ec_target
    /\ all_growth_df # None =>
          \A n \in 1..Len(all_growth_df.rows) :
              \E c \in 1..Len(school_info) :
                  /\ school_info[c].k = all_growth_df.rows[n].school
                  /\ school_info[c].v.ec_target = all_growth_df.rows[n].ec_target

C6_Witness ==
    /\ all_growth_df # None
    /\ \E a, b \in 1..Len(all_growth_df.rows) :
          /\ all_growth_df.rows[a].school = Dongsan
          /\ all_growth_df.rows[b].school = Haneul
          /\ a < b
    /\ Len(growth_data) >= 3

\* The growth tab has been left: by an exception or past the summary.
GrowthTabLeft ==
    \/ pc \in {"expander", "done"}
    \/ pc = "error" /\ err.line >= 189

SchoolsWithRows ==
    {s \in KeySet(growth_data) : DictGet(growth_data, s).rows # <<>>}

\* C7: the per-school growth summary has exactly one row per school that has
\* growth rows, no other row, in strictly ascending order of the registered
\* target EC (with data for all schools but the EC 2.0 one: 1.0, 4.0, 8.0).
C7_SummarySortedByEc ==
    GrowthTabLeft =>
        /\ growth_agg # None
        /\ {growth_agg.rows[n].school : n \in 1..Len(growth_agg.rows)} = SchoolsWithRows
        /\ Len(growth_agg.rows) = Cardinality(SchoolsWithRows)
        /\ \A n \in 1..(Len(growth_agg.rows) - 1) :
              DictGet(school_info, growth_agg.rows[n].school).ec_target
                  < DictGet(school_info, growth_agg.rows[n + 1].school).ec_target
        /\ SchoolsWithRows = {Songdo, Ara, Dongsan} =>
              [n \in 1..Len(growth_agg.rows) |-> growth_agg.rows[n].ec_val] = <<1, 4, 8>>

\* C8: the best-school annotation does not affect the aggregates: once the
\* best-school step has run, also for a growth mapping without the best
\* school, the growth summary is (about to be) produced.
C8_BestSchoolNoEffect ==
    (pc = "agg" \/ GrowthTabLeft) => (pc = "agg" \/ growth_agg # None)

EmptyFrame == [rows |-> <<>>]

\* C9 as claimed: with zero growth tables after a successful load the unify
\* step produces an empty unified growth table and does not abort.
C9_UnifyEmptyTable ==
    (Unpacked /\ pc # "check" /\ growth_data = <<>>) =>
        /\ pc \notin {"stopped", "error"}
        /\ pc # "unify" => all_growth_df = EmptyFrame

\* C9 as amended: with zero growth tables after a successful load the
\* emptiness check stops the run before the unify step, which therefore only
\* runs on at least one growth table; no unified table is produced.
C9_StopsBeforeUnify ==
    (Unpacked /\ pc # "check" /\ growth_data = <<>>) =>
        /\ pc = "stopped"
        /\ err = NoErr
        /\ all_growth_df = None

C9_Witness ==
    /\ pc = "stopped"
    /\ env_data # <<>>
    /\ growth_data = <<>>
    /\ WorkbookSheets # <<>>

\* C10: no undefined (NaN) mean of a school with a zero-row environment
\* table is placed in the environment summary.
C10_NoNaNInEnvSummary ==
    env_stats # None =>
        \A n \in 1..Len(env_stats.rows) :
            /\ env_stats.rows[n].Temp # NaN
            /\ env_stats.rows[n].Hum # NaN
            /\ env_stats.rows[n].pH # NaN
            /\ env_stats.rows[n].EC_Actual # NaN

\* A file of the listing qualifies when its stored name is one of the two
\* normalization forms of the target.
Qualifies(j) == files[j].name = NFC(target) \/ files[j].name = NFD(target)

BothFormsListed ==
    /\ \E j \in 1..Len(files) : files[j].name = NFC(target)
    /\ \E j \in 1..Len(files) : files[j].name = NFD(target)

\* C4: on a listing holding both the NFC-named and the NFD-named file of a
\* target, the resolver selects exactly one file, never none: the first
\* qualifying file in iteration order.
C4_FirstOfBothForms ==
    (pc = "resolved" /\ BothFormsListed) =>
        /\ match # None
        /\ \E j \in 1..Len(files) :
              /\ files[j] = match
              /\ Qualifies(j)
              /\ \A h \in 1..(j - 1) : ~Qualifies(h)

C4_Witness ==
    /\ pc = "resolved"
    /\ BothFormsListed
    /\ Len(files) = 3
    /\ ~Qualifies(1)
    /\ files[2].name = NFD(target)
    /\ match = files[2]

\* C5: the resolver selects a file if and only if a stored name equals the
\* NFC or the NFD form of the target, whichever form the target is given
\* in; a name that only contains, prefixes or extends the target is never
\* selected.
C5_ExactMatchEitherForm ==
    pc = "resolved" =>
        /\ match # None <=> \E j \in 1..Len(files) : files[j].name \in StoredForms(target)
        /\ match # None =>
              /\ \E j \in 1..Len(files) : files[j] = match
              /\ match.name \in StoredForms(target)

C5_Witness ==
    /\ pc = "resolved"
    /\ target = NFC(target)
    /\ target # NFD(target)
    /\ Len(files) = 2
    /\ files[1].name = target \o <<".bak">>
    /\ match = files[2]
    /\ match.name = NFD(target)

====
